---- MODULE Spec2Model ----
(***************************************************************************)
(* NationsAPI: a gateway in front of the restcountries HTTP service.       *)
(*                                                                         *)
(* Two servers live in the repository:                                     *)
(*   variant A  src/unnamed/part_000: express-rate-limit, a memory-cache   *)
(*              middleware keyed by the original URL, the listing route    *)
(*              and a detail route with field selection;                   *)
(*   variant B  src/rest-countries-app/backend/server.js: bearer token     *)
(*              check, apicache, a detail route with the fullText          *)
(*              fallback and formatCountry.                                *)
(*                                                                         *)
(* JavaScript runs one callback at a time: every action below is one       *)
(* synchronous run of a middleware or of a handler between two awaits.     *)
(***************************************************************************)
EXTENDS Integers, Sequences, FiniteSets, TLC

VARIABLES
    now,        \* Date.now(), in milliseconds
    req,        \* the requests: slot -> request context
    memCache,   \* variant A: memory-cache's records, key -> [value, expire]
    apiCache,   \* variant B: apicache's entries, key -> [status, body, expire]
    hits,       \* variant A: the limiter's store, ip -> [count, windowStart]
    decision,   \* the limiter's last verdict
    shaped,     \* the listing handler's last input and output (shaper runs)
    env,        \* process.env.NODE_ENV of the server process
    server      \* the server the run is about: "A" or "B"

vars == <<now, req, memCache, apiCache, hits, decision, shaped, env, server>>

----------------------------------------------------------------------------
(* Bounds of the model.                                                    *)

MaxReqs == 2          \* requests a run follows
MaxTicks == 3         \* the clock stops after MaxTicks steps
MaxOver == 1          \* requests counted beyond the limiter's max

Slots == 1..MaxReqs

----------------------------------------------------------------------------
(* JavaScript values.  Every value carries its type in t.                  *)

Undef == [t |-> "undefined"]
Null == [t |-> "null"]
Str(s) == [t |-> "string", s |-> s]
Num(n) == [t |-> "number", n |-> n]
\* The numbers that are no integer: the model needs NaN and Infinity only.
NaN == [t |-> "NaN"]
Infinity == [t |-> "Infinity"]
Arr(a) == [t |-> "array", a |-> a]
\* An object: its own keys in insertion order, and their values.
Obj(k, o) == [t |-> "object", k |-> k, o |-> o]

\* ToBoolean.
Truthy(v) ==
    CASE v.t = "undefined" -> FALSE
      [] v.t = "null" -> FALSE
      [] v.t = "string" -> v.s # ""
      [] v.t = "number" -> v.n # 0
      [] v.t = "NaN" -> FALSE
      [] OTHER -> TRUE

\* a || b
OrElse(a, b) == IF Truthy(a) THEN a ELSE b

\* o?.f : undefined when o is null or undefined or has no such property.
OptGet(o, f) ==
    IF o.t = "object" /\ f \in DOMAIN o.o THEN o.o[f] ELSE Undef

\* a[i] for a zero-based index i of an array.
At(a, i) == IF a.t = "array" /\ i + 1 \in DOMAIN a.a THEN a.a[i + 1] ELSE Undef

\* Object.values(o)
ObjectValues(o) == Arr([i \in 1..Len(o.k) |-> o.o[o.k[i]]])

\* JSON.stringify, as a value: a property whose value is undefined is left
\* out, an undefined array element becomes null, NaN and Infinity become
\* null, undefined gives undefined.
RECURSIVE Stringify(_)
Stringify(v) ==
    CASE v.t = "object" ->
           LET keep == SelectSeq(v.k, LAMBDA f : v.o[f].t # "undefined")
           IN  Obj(keep, [f \in {keep[i] : i \in 1..Len(keep)} |-> Stringify(v.o[f])])
      [] v.t = "array" ->
           Arr([i \in 1..Len(v.a) |->
                  IF v.a[i].t = "undefined" THEN Null ELSE Stringify(v.a[i])])
      [] v.t \in {"NaN", "Infinity"} -> Null
      [] OTHER -> v

\* The body express sends for res.json(v): the JSON text, or no body at all
\* when JSON.stringify returns undefined.
JsonBody(v) == IF v.t = "undefined" THEN Undef ELSE [t |-> "json", v |-> Stringify(v)]

\* Strings are sequences of pieces; a string the code looks into is spelled
\* letter by letter.
LowerOf(c) == CASE c = "A" -> "a" [] c = "B" -> "b" [] OTHER -> c

\* s.toLowerCase()
toLowerCase(s) == [i \in 1..Len(s) |-> LowerOf(s[i])]

\* s.includes(sub)
includes(s, sub) ==
    \E i \in 0..(Len(s) - Len(sub)) : SubSeq(s, i + 1, i + Len(sub)) = sub

Digits == {"0", "1", "2", "3"}
DigitVal(c) == CASE c = "0" -> 0 [] c = "1" -> 1 [] c = "2" -> 2 [] OTHER -> 3

RECURSIVE DigitsVal(_)
DigitsVal(s) ==
    IF s = <<>> THEN 0 ELSE 10 * DigitsVal(SubSeq(s, 1, Len(s) - 1)) + DigitVal(s[Len(s)])

\* ToNumber, on the values a query parameter or its default can be.
ToNumber(v) ==
    CASE v.t = "number" -> v
      [] v.t = "string" ->
           IF \A i \in 1..Len(v.s) : v.s[i] \in Digits THEN Num(DigitsVal(v.s)) ELSE NaN
      [] OTHER -> NaN

\* parseInt(v): the value of the longest prefix of digits, NaN without one.
parseInt(v) ==
    CASE v.t = "number" -> v
      [] v.t = "string" ->
           LET n == CHOOSE k \in 0..Len(v.s) :
                      /\ \A i \in 1..k : v.s[i] \in Digits
                      /\ k = Len(v.s) \/ v.s[k + 1] \notin Digits
           IN  IF n = 0 THEN NaN ELSE Num(DigitsVal(SubSeq(v.s, 1, n)))
      [] OTHER -> NaN

\* a - b and a * b after ToNumber.
Minus(a, b) ==
    LET x == ToNumber(a) y == ToNumber(b)
    IN  IF x.t = "number" /\ y.t = "number" THEN Num(x.n - y.n) ELSE NaN
Times(a, b) ==
    LET x == ToNumber(a) y == ToNumber(b)
    IN  IF x.t = "number" /\ y.t = "number" THEN Num(x.n * y.n) ELSE NaN

\* Math.ceil(n / d) for an integer n >= 0 and d after ToNumber (never negative:
\* a parameter has no sign in the model).
CeilOfQuotient(n, d) ==
    LET y == ToNumber(d)
    IN  IF y.t # "number" THEN NaN
        ELSE IF y.n = 0 THEN (IF n = 0 THEN NaN ELSE Infinity)
        ELSE Num((n + y.n - 1) \div y.n)

\* a.slice(start, end): NaN counts as 0, a negative index counts from the end.
RelativeIndex(len, i) ==
    IF i.t # "number" THEN 0
    ELSE IF i.n < 0 THEN (IF len + i.n < 0 THEN 0 ELSE len + i.n)
    ELSE IF i.n > len THEN len ELSE i.n
slice(a, start, end) ==
    LET from == RelativeIndex(Len(a), start)
        to == RelativeIndex(Len(a), end)
    IN  SubSeq(a, from + 1, to)

----------------------------------------------------------------------------
(* The upstream service, seen through axios.                               *)

\* Records of the upstream.  Common names are spelled letter by letter.
Alba ==
    Obj(<<"name", "cca2", "cca3", "flags", "population", "region", "subregion",
          "capital", "languages", "currencies", "maps", "timezones", "latlng">>,
        [name |-> Obj(<<"common", "official">>,
                      [common |-> Str(<<"A", "b">>), official |-> Str(<<"Republic of Ab">>)]),
         cca2 |-> Str(<<"AB">>),
         cca3 |-> Str(<<"ABA">>),
         flags |-> Obj(<<"png", "svg">>, [png |-> Str(<<"ab.png">>), svg |-> Str(<<"ab.svg">>)]),
         population |-> Num(7),
         region |-> Str(<<"Europe">>),
         subregion |-> Str(<<"Southeast Europe">>),
         capital |-> Arr(<<Str(<<"Tir">>), Str(<<"Dur">>)>>),
         languages |-> Obj(<<"sqi", "eng">>, [sqi |-> Str(<<"Albanian">>), eng |-> Str(<<"English">>)]),
         currencies |-> Obj(<<"ALL">>,
                            [ALL |-> Obj(<<"name", "symbol">>,
                                         [name |-> Str(<<"lek">>), symbol |-> Str(<<"L">>)])]),
         maps |-> Obj(<<"googleMaps">>, [googleMaps |-> Str(<<"goo.gl/ab">>)]),
         timezones |-> Arr(<<Str(<<"UTC+01:00">>)>>),
         latlng |-> Arr(<<Num(41), Num(20)>>)])

\* An uninhabited territory: population 0, only a png flag, no capital.
Bouvet ==
    Obj(<<"name", "cca2", "flags", "population", "region">>,
        [name |-> Obj(<<"common">>, [common |-> Str(<<"a", "B">>)]),
         cca2 |-> Str(<<"BV">>),
         flags |-> Obj(<<"png">>, [png |-> Str(<<"bv.png">>)]),
         population |-> Num(0),
         region |-> Str(<<>>)])

Cuba ==
    Obj(<<"name", "cca2", "population">>,
        [name |-> Obj(<<"common">>, [common |-> Str(<<"B">>)]),
         cca2 |-> Str(<<"CU">>),
         population |-> Num(11)])

\* What axios.get resolves with, or rejects with.  An axios error has
\* error.response when the upstream answered, error.request when the request was
\* sent, and always a message.
Resolved(data) == [ok |-> TRUE, data |-> data, response |-> 0, request |-> FALSE, message |-> ""]
StatusError(s) ==
    [ok |-> FALSE, data |-> Obj(<<"status">>, [status |-> Num(s)]),
     response |-> s, request |-> TRUE,
     message |-> CASE s = 400 -> "Request failed with status code 400"
                   [] s = 404 -> "Request failed with status code 404"
                   [] s = 500 -> "Request failed with status code 500"
                   [] OTHER -> "Request failed"]
NoResponse ==
    [ok |-> FALSE, data |-> Undef, response |-> 0, request |-> TRUE, message |-> "Network Error"]
SetupError ==
    [ok |-> FALSE, data |-> Undef, response |-> 0, request |-> FALSE, message |-> "Invalid URL"]
\* A TypeError thrown inside a handler: neither response nor request.
TypeError ==
    [ok |-> FALSE, data |-> Undef, response |-> 0, request |-> FALSE,
     message |-> "Cannot read properties of undefined"]

Failures == {StatusError(400), StatusError(404), StatusError(500), NoResponse, SetupError}

----------------------------------------------------------------------------
(* Requests.                                                               *)

\* A URL as the client wrote it: the route's path, the :name segment of the
\* detail route ("" on the listing route) and the query pairs in the order
\* and the spelling of the request line.
Url(name, query) == [name |-> name, query |-> query]

RECURSIVE QueryString(_, _)
QueryString(q, i) ==
    IF i > Len(q) THEN <<>>
    ELSE <<(IF i = 1 THEN "?" ELSE "&"), q[i][1], "=">> \o q[i][2] \o QueryString(q, i + 1)

\* req.originalUrl, as the sequence of its pieces.
originalUrl(u) ==
    <<"/api/countries">> \o (IF u.name = "" THEN <<>> ELSE <<"/", u.name>>)
        \o QueryString(u.query, 1)

\* req.query[k]: the value of parameter k, undefined when the URL has none.
\* Parameter names are matched as written.
QueryParam(u, k) ==
    LET at == {i \in 1..Len(u.query) : u.query[i][1] = k}
    IN  IF at = {} THEN Undef
        ELSE Str(u.query[CHOOSE i \in at : \A j \in at : i <= j][2])

NoResp == [status |-> 0, body |-> Undef]
NoShaped == [ran |-> FALSE, data |-> [t |-> "array", a |-> <<>>], url |-> Url("", <<>>), out |-> Undef]
NoDecision == [ip |-> "", allowed |-> TRUE, count |-> 0]

\* A request context.  pc is the middleware or continuation that runs next;
\* ev lists what the request has done so far, calls the upstream requests it
\* issued and results what axios gave back for them.
IdleReq ==
    [pc |-> "idle", ip |-> "", hdr |-> Undef, url |-> Url("", <<>>),
     wrapped |-> FALSE, calls |-> <<>>, results |-> <<>>, ev |-> <<>>,
     resp |-> NoResp]

\* The middleware express runs after stage st of a route's chain.
After(chain, st) ==
    LET i == CHOOSE j \in 1..Len(chain) : chain[j] = st
    IN  IF i < Len(chain) THEN chain[i + 1] ELSE "done"

\* Time passes: the clock moves on by step milliseconds.
Tick(step) ==
    /\ now < MaxTicks * step
    /\ now' = now + step
    /\ UNCHANGED <<req, memCache, apiCache, hits, decision, shaped, env, server>>

\* A cache without key k.
Without(c, k) == [x \in DOMAIN c \ {k} |-> c[x]]
\* A cache with key k set to e.
With(c, k, e) == [x \in DOMAIN c \cup {k} |-> IF x = k THEN e ELSE c[x]]

----------------------------------------------------------------------------
(* Variant B: src/rest-countries-app/backend/server.js                     *)

COUNTRIES_API == "https://restcountries.com/v3.1"
AUTH_TOKEN == "secrettoken123"

\* The environment modes a deployment sets; without one the servers take
\* themselves to be in development.
EnvModes == {"development", "production"}

\* s.split(' '): the pieces of s between its spaces.
RECURSIVE SplitFrom(_, _, _)
SplitFrom(s, i, cur) ==
    IF i > Len(s) THEN <<cur>>
    ELSE IF s[i] = " " THEN <<cur>> \o SplitFrom(s, i + 1, <<>>)
    ELSE SplitFrom(s, i + 1, Append(cur, s[i]))

Split(s) == SplitFrom(s, 1, <<>>)

\* s.startsWith('Bearer ')
StartsWithBearer(s) == Len(s) >= 2 /\ s[1] = "Bearer" /\ s[2] = " "

\* A check that rejects a wrong token only, and lets a request without a
\* bearer header through.
AuthRejectsTokenOnly(auth) ==
    /\ Truthy(auth)
    /\ StartsWithBearer(auth.s)
    /\ Split(auth.s)[2] # <<AUTH_TOKEN>>

\* The condition under which authMiddleware answers 401.
AuthRejects(auth) ==
    \/ ~Truthy(auth)
    \/ ~StartsWithBearer(auth.s)
    \/ Split(auth.s)[2] # <<AUTH_TOKEN>>

Unauthorized == Obj(<<"error">>, [error |-> Str(<<"Nao autorizado">>)])

\* Authorization headers a client may send; Undef is no header at all.
Headers ==
    {Undef,
     Str(<<"Bearer", " ", AUTH_TOKEN>>),
     Str(<<"Bearer", " ", "wrong">>),
     Str(<<AUTH_TOKEN>>),
     Str(<<"Bearer", " ", AUTH_TOKEN, " ", "extra">>)}

\* Path segments of the detail route, as written in the URL.
Names == {"congo", "costa%20rica"}

\* express decodes the path parameter.
decodeURIComponent(n) == IF n = "costa%20rica" THEN "costa rica" ELSE n
encodeURIComponent(n) == IF n = "costa rica" THEN "costa%20rica" ELSE n

formatCountry(country) ==
    LET name == OptGet(country, "name")
        flags == OptGet(country, "flags")
        maps == OptGet(country, "maps")
        capital == OptGet(country, "capital")
        languages == OptGet(country, "languages")
        currencies == OptGet(country, "currencies")
    IN  Obj(<<"name", "officialName", "code", "cca3", "flag", "population", "region",
              "subregion", "capital", "languages", "currencies", "maps", "timezones",
              "coordinates">>,
            [name |-> OrElse(OptGet(name, "common"), Null),
             officialName |-> OrElse(OptGet(name, "official"), Null),
             code |-> OrElse(OptGet(country, "cca2"), Null),
             cca3 |-> OrElse(OptGet(country, "cca3"), Null),
             flag |-> OrElse(OrElse(OptGet(flags, "svg"), OptGet(flags, "png")), Null),
             population |-> OrElse(OptGet(country, "population"), Null),
             region |-> OrElse(OptGet(country, "region"), Null),
             subregion |-> OrElse(OptGet(country, "subregion"), Null),
             capital |-> IF capital.t = "array" THEN At(capital, 0) ELSE Null,
             languages |-> IF Truthy(languages) THEN ObjectValues(languages) ELSE Null,
             currencies |->
                 IF Truthy(currencies)
                 THEN Arr([i \in 1..Len(currencies.k) |->
                             LET code == currencies.k[i]
                                 cur == currencies.o[code]
                             IN  Obj(<<"code", "name", "symbol">>,
                                     [code |-> Str(<<code>>),
                                      name |-> OptGet(cur, "name"),
                                      symbol |-> OptGet(cur, "symbol")])])
                 ELSE Null,
             maps |-> Obj(<<"googleMaps", "openStreetMaps">>,
                          [googleMaps |-> OptGet(maps, "googleMaps"),
                           openStreetMaps |-> OptGet(maps, "openStreetMaps")]),
             timezones |-> OrElse(OptGet(country, "timezones"), Null),
             coordinates |-> OrElse(OptGet(country, "latlng"), Null)])

\* A chain that looks the cache up before it checks the token.
CacheBeforeAuth == <<"cache", "auth", "handler">>

\* The middleware chain of GET /api/countries/:name.
DetailChainB == <<"auth", "cache", "handler">>

\* cache('10 minutes')
ApicacheMs == 10 * 60 * 1000

\* A fallback that forgets status 400.
FallbackOnly404(error) == error.response = 404
\* A fallback on every status the upstream answers with.
FallbackAnyStatus(error) == error.response # 0

\* The first attempt's failures that are answered by the second attempt.
FallbackStatus(error) == error.response = 400 \/ error.response = 404

\* The two upstream requests of the detail handler.
FullTextCall(name) == [name |-> encodeURIComponent(name), fullText |-> TRUE]
RelaxedCall(name) == [name |-> encodeURIComponent(name), fullText |-> FALSE]

NotFoundB ==
    Obj(<<"error", "message">>,
        [error |-> Str(<<"Pais nao encontrado">>),
         message |-> Str(<<"Nenhum pais corresponde ao termo pesquisado">>)])

CatchBodyB(error) ==
    Obj(<<"error", "details">>,
        [error |-> Str(<<"Pais nao encontrado">>), details |-> Str(<<error.message>>)])

\* What the upstream may answer successfully on the detail route.
DetailData == {Arr(<<>>), Arr(<<Bouvet, Alba>>)}
OutcomesB == {Resolved(d) : d \in DetailData} \cup Failures

\* res.status(status).json(val) of request r, whose context so far is q.  When
\* apicache has wrapped the response, the response is stored as it ends.
SendB(r, q, status, val) ==
    LET body == JsonBody(val)
        done == [q EXCEPT !.pc = "done", !.resp = [status |-> status, body |-> body]]
    IN  IF q.wrapped
        THEN /\ req' = [req EXCEPT ![r] = [done EXCEPT !.ev = q.ev \o <<"send", "cacheWrite">>]]
             /\ apiCache' = With(apiCache, originalUrl(q.url),
                                 [status |-> status, body |-> body,
                                  expire |-> now + ApicacheMs])
        ELSE /\ req' = [req EXCEPT ![r] = [done EXCEPT !.ev = Append(q.ev, "send")]]
             /\ apiCache' = apiCache

ArriveB(r, hdr, name) ==
    /\ req[r].pc = "idle"
    /\ \A p \in 1..(r - 1) : req[p].pc # "idle"
    /\ req' = [req EXCEPT ![r] = [@ EXCEPT !.pc = DetailChainB[1], !.hdr = hdr,
                                          !.url = Url(name, <<>>)]]
    /\ UNCHANGED <<now, memCache, apiCache, hits, decision, shaped, env, server>>

authMiddleware(r) ==
    /\ req[r].pc = "auth"
    /\ LET q == [req[r] EXCEPT !.ev = Append(@, "auth")]
       IN  IF AuthRejects(q.hdr)
           THEN SendB(r, q, 401, Unauthorized)
           ELSE /\ req' = [req EXCEPT ![r] = [q EXCEPT !.pc = After(DetailChainB, "auth")]]
                /\ apiCache' = apiCache
    /\ UNCHANGED <<now, memCache, hits, decision, shaped, env, server>>

\* apicache: a stored response is replayed with its status; otherwise the
\* response is wrapped and the chain goes on.
apicacheMiddleware(r) ==
    /\ req[r].pc = "cache"
    /\ LET q == [req[r] EXCEPT !.ev = Append(@, "cacheLookup")]
           key == originalUrl(q.url)
       IN  IF key \in DOMAIN apiCache
           THEN req' = [req EXCEPT ![r] =
                          [q EXCEPT !.pc = "done", !.ev = Append(q.ev, "send"),
                                    !.resp = [status |-> apiCache[key].status,
                                              body |-> apiCache[key].body]]]
           ELSE req' = [req EXCEPT ![r] =
                          [q EXCEPT !.pc = After(DetailChainB, "cache"), !.wrapped = TRUE]]
    /\ UNCHANGED <<now, memCache, apiCache, hits, decision, shaped, env, server>>

\* apicache's timer removes an entry once its duration has passed.
apicacheTimeout(k) ==
    /\ k \in DOMAIN apiCache
    /\ now >= apiCache[k].expire
    /\ apiCache' = Without(apiCache, k)
    /\ UNCHANGED <<now, req, memCache, hits, decision, shaped, env, server>>

\* The handler up to its first await: the fullText request.
detailHandlerB(r) ==
    /\ req[r].pc = "handler"
    /\ req' = [req EXCEPT ![r] =
                 [@ EXCEPT !.pc = "await1", !.ev = Append(@, "fetch"),
                           !.calls = Append(@, FullTextCall(decodeURIComponent(req[r].url.name)))]]
    /\ UNCHANGED <<now, memCache, apiCache, hits, decision, shaped, env, server>>

\* The handler from a resolved axios.get to its response.
FinishB(r, q, response) ==
    IF ~Truthy(response.data) \/ Len(response.data.a) = 0
    THEN SendB(r, q, 404, NotFoundB)
    ELSE SendB(r, [q EXCEPT !.ev = Append(@, "format")], 200,
               formatCountry(At(response.data, 0)))

\* A catch that asks the upstream once more before it gives up.
CatchAndRetry(r, q, error) ==
    IF Len(q.calls) < 3
    THEN /\ req' = [req EXCEPT ![r] =
                      [q EXCEPT !.pc = "await2", !.ev = Append(@, "fetch"),
                                !.calls = Append(@, RelaxedCall(decodeURIComponent(q.url.name)))]]
         /\ apiCache' = apiCache
    ELSE SendB(r, q, 404, CatchBodyB(error))

\* The outer catch.
CatchB(r, q, error) == SendB(r, q, 404, CatchBodyB(error))

\* The first axios.get settles.
firstReplyB(r, o) ==
    /\ req[r].pc = "await1"
    /\ LET q == [req[r] EXCEPT !.results = Append(@, o)]
       IN  IF o.ok THEN FinishB(r, q, o)
           ELSE IF FallbackStatus(o)
           THEN /\ req' = [req EXCEPT ![r] =
                             [q EXCEPT !.pc = "await2", !.ev = Append(@, "fetch"),
                                       !.calls = Append(@, RelaxedCall(decodeURIComponent(q.url.name)))]]
                /\ apiCache' = apiCache
           ELSE CatchB(r, q, o)
    /\ UNCHANGED <<now, memCache, hits, decision, shaped, env, server>>

\* The second axios.get settles.
secondReplyB(r, o) ==
    /\ req[r].pc = "await2"
    /\ LET q == [req[r] EXCEPT !.results = Append(@, o)]
       IN  IF o.ok THEN FinishB(r, q, o) ELSE CatchB(r, q, o)
    /\ UNCHANGED <<now, memCache, hits, decision, shaped, env, server>>

InitB ==
    /\ now = 0
    /\ req = [r \in Slots |-> IdleReq]
    /\ memCache = <<>>
    /\ apiCache = <<>>
    /\ hits = <<>>
    /\ decision = NoDecision
    /\ shaped = NoShaped
    /\ env \in EnvModes
    /\ server = "B"

NextB ==
    \/ Tick(ApicacheMs \div 2)
    \/ \E r \in Slots, hdr \in Headers, name \in Names : ArriveB(r, hdr, name)
    \/ \E r \in Slots : authMiddleware(r)
    \/ \E r \in Slots : apicacheMiddleware(r)
    \/ \E r \in Slots : detailHandlerB(r)
    \/ \E r \in Slots, o \in OutcomesB : firstReplyB(r, o)
    \/ \E r \in Slots, o \in OutcomesB : secondReplyB(r, o)
    \/ \E k \in DOMAIN apiCache : apicacheTimeout(k)

SpecB == InitB /\ [][NextB]_vars

----------------------------------------------------------------------------
(* Variant A: src/unnamed/part_000.  The listing handler's computation.    *)

MaxLen == 3           \* the longest short upstream list

\* const { page = 1, limit = 20, search = '' } = req.query: a default stands in
\* for a parameter that is undefined.
pageOf(u) == IF QueryParam(u, "page").t = "undefined" THEN Num(1) ELSE QueryParam(u, "page")
limitOf(u) == IF QueryParam(u, "limit").t = "undefined" THEN Num(20) ELSE QueryParam(u, "limit")
searchOf(u) == IF QueryParam(u, "search").t = "undefined" THEN Str(<<>>) ELSE QueryParam(u, "search")

\* A filter that compares the letters as they are written.
filterCaseSensitive(countries, search) ==
    IF Truthy(search)
    THEN SelectSeq(countries,
                   LAMBDA country : includes(country.o.name.o.common.s, search.s))
    ELSE countries

\* The filter by name: the records whose common name, lower-cased, includes
\* the lower-cased search term; every record when search is empty.
filterByName(countries, search) ==
    IF Truthy(search)
    THEN SelectSeq(countries,
                   LAMBDA country :
                     includes(toLowerCase(country.o.name.o.common.s), toLowerCase(search.s)))
    ELSE countries

\* An end index one too far.
endIndexInclusive(page, limit) ==
    LET e == Times(page, limit) IN IF e.t = "number" THEN Num(e.n + 1) ELSE e

startIndex(page, limit) == Times(Minus(page, Num(1)), limit)
endIndex(page, limit) == Times(page, limit)

\* The object the listing handler passes to res.json.
listingResult(data, u) ==
    LET page == pageOf(u)
        limit == limitOf(u)
        countries == filterByName(data.a, searchOf(u))
        paginatedCountries == slice(countries, startIndex(page, limit), endIndex(page, limit))
    IN  Obj(<<"total", "page", "totalPages", "data">>,
            [total |-> Num(Len(countries)),
             page |-> parseInt(page),
             totalPages |-> CeilOfQuotient(Len(countries), limit),
             data |-> Arr(paginatedCountries)])

\* Upstream lists: every list of at most MaxLen records, and one longer than
\* the default page.
RECURSIVE ListsUpTo(_)
ListsUpTo(n) ==
    IF n = 0 THEN {<<>>}
    ELSE LET shorter == ListsUpTo(n - 1)
         IN  shorter \cup {Append(l, c) : l \in shorter, c \in {Alba, Bouvet, Cuba}}
LongList == [i \in 1..(20 + MaxLen) |-> IF i % 3 = 1 THEN Alba ELSE IF i % 3 = 2 THEN Bouvet ELSE Cuba]
ShaperData == {Arr(l) : l \in ListsUpTo(MaxLen) \cup {LongList}}

\* Values of the listing's parameters; <<"-">> stands for no such parameter.
Absent == <<"-">>
PageValues == {Absent, <<"1">>, <<"2">>, <<"3">>, <<"0">>, <<"0", "2">>, <<"2", "x">>}
LimitValues == {Absent, <<"1">>, <<"2">>, <<"3">>, <<"0">>, <<"x">>}
SearchValues == {Absent, <<>>, <<"a">>, <<"B">>, <<"a", "B">>, <<"b", "a">>}

ListingUrl(page, limit, search) ==
    Url("", (IF search = Absent THEN <<>> ELSE <<<<"search", search>>>>)
              \o (IF limit = Absent THEN <<>> ELSE <<<<"limit", limit>>>>)
              \o (IF page = Absent THEN <<>> ELSE <<<<"page", page>>>>))

\* One run of the listing handler's computation on the upstream list and the
\* URL at hand.
shape ==
    /\ ~shaped.ran
    /\ shaped' = [ran |-> TRUE, data |-> shaped.data, url |-> shaped.url,
                  out |-> listingResult(shaped.data, shaped.url)]
    /\ UNCHANGED <<now, req, memCache, apiCache, hits, decision, env, server>>

InitShaper ==
    /\ now = 0
    /\ req = [r \in Slots |-> IdleReq]
    /\ memCache = <<>>
    /\ apiCache = <<>>
    /\ hits = <<>>
    /\ decision = NoDecision
    /\ shaped \in {[ran |-> FALSE, data |-> data, url |-> ListingUrl(page, limit, search),
                    out |-> Undef] :
                     data \in ShaperData, page \in PageValues, limit \in LimitValues,
                     search \in SearchValues}
    /\ env = "development"
    /\ server = "A"

NextShaper == shape

SpecShaper == InitShaper /\ [][NextShaper]_vars

\* A parameter that is a decimal numeral of a number >= 1, or is absent.
ValidNumeral(v) ==
    \/ v.t = "undefined"
    \/ v.t = "string" /\ v.s # <<>> /\ (\A i \in 1..Len(v.s) : v.s[i] \in Digits)
                      /\ DigitsVal(v.s) >= 1
ValueOr(v, d) == IF v.t = "undefined" THEN d ELSE DigitsVal(v.s)

\* C10: for page >= 1 and limit >= 1 (1 and 20 when absent), data is the slice
\* [(page-1)*limit, page*limit) of the filtered list in upstream order, total
\* is the filtered list's length, page is the requested page and totalPages
\* is the least n with n * limit >= total.
C10_Pagination ==
    shaped.ran =>
      LET rawPage == QueryParam(shaped.url, "page")
          rawLimit == QueryParam(shaped.url, "limit")
          P == ValueOr(rawPage, 1)
          L == ValueOr(rawLimit, 20)
          f == filterByName(shaped.data.a, searchOf(shaped.url))
          out == shaped.out.o
          room == Len(f) - (P - 1) * L
          n == IF room < 0 THEN 0 ELSE IF room > L THEN L ELSE room
      IN  (ValidNumeral(rawPage) /\ ValidNumeral(rawLimit)) =>
            /\ out.total = Num(Len(f))
            /\ out.page = Num(P)
            /\ out.totalPages.t = "number"
            /\ out.totalPages.n * L >= Len(f)
            /\ (out.totalPages.n - 1) * L < Len(f) \/ (Len(f) = 0 /\ out.totalPages.n = 0)
            /\ Len(out.data.a) = n
            /\ Len(out.data.a) <= L
            /\ \A i \in 1..n : out.data.a[i] = f[(P - 1) * L + i]

\* The second page, of one record, of a search that keeps two records of three.
C10_Witness ==
    /\ shaped.ran
    /\ QueryParam(shaped.url, "page") = Str(<<"2">>)
    /\ QueryParam(shaped.url, "limit") = Str(<<"1">>)
    /\ Truthy(searchOf(shaped.url))
    /\ Len(shaped.data.a) = 3
    /\ shaped.out.o.total = Num(2)
    /\ shaped.out.o.totalPages = Num(2)
    /\ Len(shaped.out.o.data.a) = 1

----------------------------------------------------------------------------
(* Variant A: the limiter, the cache middleware and the two routes.        *)

\* rateLimit({ windowMs, max, message })
windowMs == 15 * 60 * 1000
\* A limit that lets one request more through.
maxPlusOne == 100 + 1
max == 100
TooMany == [t |-> "text", s |-> <<"Muitas requisicoes deste IP, tente novamente mais tarde.">>]

ClientIps == {"10.0.0.1", "10.0.0.2"}

\* The limiter's bucket of ip after one more request at time t: a new window
\* with count 1 when there is no bucket or its window has elapsed, one more
\* in the running window otherwise.
limiterIncrement(store, ip, t) ==
    IF ip \notin DOMAIN store \/ t > store[ip].windowStart + windowMs
    THEN [count |-> 1, windowStart |-> t]
    ELSE [count |-> store[ip].count + 1, windowStart |-> store[ip].windowStart]

\* The limiter lets a request through while the count is within max.
limiterAllows(bucket) == bucket.count <= max

\* The limiter counts a request of ip and gives its verdict.
limiterCount(ip) ==
    LET bucket == limiterIncrement(hits, ip, now)
    IN  /\ bucket.count <= max + MaxOver
        /\ hits' = With(hits, ip, bucket)
        /\ decision' = [ip |-> ip, allowed |-> limiterAllows(bucket), count |-> bucket.count]

\* A request of ip passes through the limiter; what happens to it afterwards
\* is of no concern to the limiter.
limiterRequest(ip) ==
    /\ limiterCount(ip)
    /\ UNCHANGED <<now, req, memCache, apiCache, shaped, env, server>>

InitLimiter ==
    /\ now = 0
    /\ req = [r \in Slots |-> IdleReq]
    /\ memCache = <<>>
    /\ apiCache = <<>>
    /\ hits = <<>>
    /\ decision = NoDecision
    /\ shaped = NoShaped
    /\ env = "development"
    /\ server = "A"

NextLimiter ==
    \/ Tick(windowMs \div 2)
    \/ \E ip \in ClientIps : limiterRequest(ip)

SpecLimiter == InitLimiter /\ [][NextLimiter]_vars

\* cacheMiddleware(300) on both routes.
duration == 300
CacheMs == duration * 1000

\* A key made of the path alone.
cacheKeyOfPath(u) == <<"__express__", "/api/countries">> \o (IF u.name = "" THEN <<>> ELSE <<"/", u.name>>)

\* One key for the whole route, whatever the name and the query are.
cacheKeyOfRoute(u) == <<"__express__", "/api/countries">>

\* const key = '__express__' + req.originalUrl
cacheKey(u) == <<"__express__">> \o originalUrl(u)

\* memory-cache's get: the value of a record that has not expired, null
\* otherwise; an expired record is deleted on the way.
memCacheGet(c, key, t) ==
    IF key \in DOMAIN c /\ c[key].expire >= t THEN c[key].value ELSE Null
memCacheAfterGet(c, key, t) ==
    IF key \in DOMAIN c /\ c[key].expire < t THEN Without(c, key) ELSE c

\* A put that keeps the record a key already has.
memCachePutIfAbsent(c, key, value, time, t) ==
    IF key \in DOMAIN c THEN c ELSE With(c, key, [value |-> value, expire |-> time + t])

\* memory-cache's put: the record is replaced, and expires time ms from t.
memCachePut(c, key, value, time, t) ==
    With(c, key, [value |-> value, expire |-> time + t])

\* The chain of both routes: app.use(limiter), then the route's middleware.
ChainA == <<"limiter", "cache", "handler">>

\* The URLs of the model's clients.
UrlsA ==
    {Url("", <<<<"page", <<"1">>>>, <<"limit", <<"2">>>>>>),
     Url("", <<<<"limit", <<"2">>>>, <<"page", <<"1">>>>>>),
     Url("", <<<<"search", <<"a">>>>>>),
     Url("", <<<<"search", <<"A">>>>>>),
     Url("ab", <<>>),
     Url("ab", <<<<"fields", <<"name", ",", "population", ",", "area">>>>>>)}

ListData == {Arr(<<Alba, Bouvet, Cuba>>), Arr(<<Cuba, Alba>>)}
FailuresA == {StatusError(404), StatusError(500), NoResponse, SetupError}
OutcomesA(u) ==
    {Resolved(d) : d \in (IF u.name = "" THEN ListData ELSE DetailData)} \cup FailuresA

\* res.status(status).send(body) of request r, whose context so far is q.  On
\* a response that cacheMiddleware has wrapped, res.send first stores the body.
SendA(r, q, status, body) ==
    LET done == [q EXCEPT !.pc = "done", !.resp = [status |-> status, body |-> body]]
    IN  IF q.wrapped
        THEN /\ req' = [req EXCEPT ![r] = [done EXCEPT !.ev = q.ev \o <<"cacheWrite", "send">>]]
             /\ memCache' = memCachePut(memCache, cacheKey(q.url), body, CacheMs, now)
        ELSE /\ req' = [req EXCEPT ![r] = [done EXCEPT !.ev = Append(q.ev, "send")]]
             /\ memCache' = memCache

\* handleApiError
handleApiErrorStatus(error) ==
    IF error.response # 0 THEN error.response
    ELSE IF error.request THEN 503
    ELSE 500
handleApiErrorBody(error) ==
    IF error.response # 0
    THEN Obj(<<"error", "details">>,
             [error |-> Str(<<"Erro na API externa">>), details |-> error.data])
    ELSE IF error.request
    THEN Obj(<<"error", "message">>,
             [error |-> Str(<<"Servico indisponivel">>),
              message |-> Str(<<"A API de paises nao respondeu">>)])
    ELSE Obj(<<"error">>, [error |-> Str(<<"Erro interno no servidor">>)])
handleApiError(r, q, error) ==
    SendA(r, q, handleApiErrorStatus(error), JsonBody(handleApiErrorBody(error)))

ArriveA(r, ip, u) ==
    /\ req[r].pc = "idle"
    /\ \A p \in 1..(r - 1) : req[p].pc # "idle"
    /\ req' = [req EXCEPT ![r] = [@ EXCEPT !.pc = ChainA[1], !.ip = ip, !.url = u]]
    /\ UNCHANGED <<now, memCache, apiCache, hits, decision, shaped, env, server>>

limiter(r) ==
    /\ req[r].pc = "limiter"
    /\ limiterCount(req[r].ip)
    /\ LET q == [req[r] EXCEPT !.ev = Append(@, "limiter")]
       IN  IF limiterAllows(limiterIncrement(hits, q.ip, now))
           THEN /\ req' = [req EXCEPT ![r] = [q EXCEPT !.pc = After(ChainA, "limiter")]]
                /\ memCache' = memCache
           ELSE SendA(r, q, 429, TooMany)
    /\ UNCHANGED <<now, apiCache, shaped, env, server>>

cacheMiddleware(r) ==
    /\ req[r].pc = "cache"
    /\ LET q == [req[r] EXCEPT !.ev = Append(@, "cacheLookup")]
           key == cacheKey(q.url)
           cachedContent == memCacheGet(memCache, key, now)
       IN  /\ memCache' = memCacheAfterGet(memCache, key, now)
           /\ IF Truthy(cachedContent)
              THEN req' = [req EXCEPT ![r] =
                             [q EXCEPT !.pc = "done", !.ev = q.ev \o <<"cacheHit", "send">>,
                                       !.resp = [status |-> 200, body |-> cachedContent]]]
              ELSE req' = [req EXCEPT ![r] =
                             [q EXCEPT !.pc = After(ChainA, "cache"), !.wrapped = TRUE]]
    /\ UNCHANGED <<now, apiCache, hits, decision, shaped, env, server>>

\* The timer that put has set deletes the record once its time has come.
memCacheTimeout(k) ==
    /\ k \in DOMAIN memCache
    /\ now >= memCache[k].expire
    /\ memCache' = Without(memCache, k)
    /\ UNCHANGED <<now, req, apiCache, hits, decision, shaped, env, server>>

\* The listing handler up to its await.
listHandler(r) ==
    /\ req[r].pc = "handler"
    /\ req[r].url.name = ""
    /\ req' = [req EXCEPT ![r] =
                 [@ EXCEPT !.pc = "awaitList", !.ev = Append(@, "fetch"),
                           !.calls = Append(@, <<COUNTRIES_API, "/all">>)]]
    /\ UNCHANGED <<now, memCache, apiCache, hits, decision, shaped, env, server>>

\* The listing handler from the settled axios.get to its response.
listReply(r, o) ==
    /\ req[r].pc = "awaitList"
    /\ LET q == [req[r] EXCEPT !.results = Append(@, o)]
       IN  IF o.ok
           THEN SendA(r, q, 200, JsonBody(listingResult(o.data, q.url)))
           ELSE handleApiError(r, q, o)
    /\ UNCHANGED <<now, apiCache, hits, decision, shaped, env, server>>

\* fields.split(','), as property names; a piece that is no single name
\* names no property.
RECURSIVE SplitOnComma(_, _, _)
SplitOnComma(s, i, cur) ==
    IF i > Len(s) THEN <<cur>>
    ELSE IF s[i] = "," THEN <<cur>> \o SplitOnComma(s, i + 1, <<>>)
    ELSE SplitOnComma(s, i + 1, Append(cur, s[i]))
fieldListOf(fields) ==
    LET pieces == SplitOnComma(fields.s, 1, <<>>)
    IN  [i \in 1..Len(pieces) |-> IF Len(pieces[i]) = 1 THEN pieces[i][1] ELSE ""]

\* filteredData: the listed fields whose value on countryData is truthy, in
\* the order in which they are first listed.
selectFields(countryData, fieldList) ==
    LET kept == {i \in 1..Len(fieldList) :
                   /\ Truthy(OptGet(countryData, fieldList[i]))
                   /\ \A j \in 1..(i - 1) : fieldList[j] # fieldList[i]}
        keys == SelectSeq([i \in 1..Len(fieldList) |-> IF i \in kept THEN fieldList[i] ELSE ""],
                          LAMBDA f : f # "")
    IN  Obj(keys, [f \in {fieldList[i] : i \in kept} |-> countryData.o[f]])

\* The detail handler up to its await.
detailHandler(r) ==
    /\ req[r].pc = "handler"
    /\ req[r].url.name # ""
    /\ req' = [req EXCEPT ![r] =
                 [@ EXCEPT !.pc = "awaitDetail", !.ev = Append(@, "fetch"),
                           !.calls = Append(@, <<COUNTRIES_API, "/name/", req[r].url.name>>)]]
    /\ UNCHANGED <<now, memCache, apiCache, hits, decision, shaped, env, server>>

\* The detail handler from the settled axios.get to its response.  Reading a
\* field of an undefined countryData throws, which the catch hands to
\* handleApiError.
detailReply(r, o) ==
    /\ req[r].pc = "awaitDetail"
    /\ LET q == [req[r] EXCEPT !.results = Append(@, o)]
           countryData == At(o.data, 0)
           fields == QueryParam(q.url, "fields")
       IN  IF ~o.ok THEN handleApiError(r, q, o)
           ELSE IF ~Truthy(fields) THEN SendA(r, q, 200, JsonBody(countryData))
           ELSE IF countryData.t = "undefined" THEN handleApiError(r, q, TypeError)
           ELSE SendA(r, q, 200, JsonBody(selectFields(countryData, fieldListOf(fields))))
    /\ UNCHANGED <<now, apiCache, hits, decision, shaped, env, server>>

\* The limiter's store as the server starts, or after max - 1 requests of the
\* model's client.
Init ==
    /\ now = 0
    /\ req = [r \in Slots |-> IdleReq]
    /\ memCache = <<>>
    /\ apiCache = <<>>
    /\ hits \in {<<>>, With(<<>>, "10.0.0.1", [count |-> max - 1, windowStart |-> 0])}
    /\ decision = NoDecision
    /\ shaped = NoShaped
    /\ env = "development"
    /\ server = "A"

Next ==
    \/ Tick(CacheMs \div 2)
    \/ \E r \in Slots, u \in UrlsA : ArriveA(r, "10.0.0.1", u)
    \/ \E r \in Slots : limiter(r)
    \/ \E r \in Slots : cacheMiddleware(r)
    \/ \E k \in DOMAIN memCache : memCacheTimeout(k)
    \/ \E r \in Slots : listHandler(r)
    \/ \E r \in Slots : \E o \in OutcomesA(req[r].url) : listReply(r, o)
    \/ \E r \in Slots : detailHandler(r)
    \/ \E r \in Slots : \E o \in OutcomesA(req[r].url) : detailReply(r, o)

Spec == Init /\ [][Next]_vars

----------------------------------------------------------------------------
(* Claims about variant B's detail route.                                  *)

Has(q, e) == \E i \in 1..Len(q.ev) : q.ev[i] = e

FirstFailedWith4xx(q) ==
    /\ Len(q.results) >= 1
    /\ ~q.results[1].ok
    /\ q.results[1].response \in {400, 404}

FirstFailedOtherwise(q) ==
    /\ Len(q.results) >= 1
    /\ ~q.results[1].ok
    /\ q.results[1].response \notin {400, 404}

\* C1: when the fullText attempt fails with status 400 or 404, exactly one
\* more upstream request is issued, for the same name and without fullText,
\* and the response is made from what that second request gave: its first
\* record, not-found when it has none, its failure when it failed.
C1_FallbackOnce ==
    \A r \in Slots :
      LET q == req[r]
      IN  FirstFailedWith4xx(q) =>
            /\ Len(q.calls) = 2
            /\ q.calls[1] = [name |-> encodeURIComponent(decodeURIComponent(q.url.name)),
                             fullText |-> TRUE]
            /\ q.calls[2] = [name |-> q.calls[1].name, fullText |-> FALSE]
            /\ q.pc \in {"await2", "done"}
            /\ q.pc = "await2" => Len(q.results) = 1
            /\ q.pc = "done" =>
                 /\ Len(q.results) = 2
                 /\ LET second == q.results[2]
                    IN  q.resp =
                          IF second.ok /\ second.data.a # <<>>
                          THEN [status |-> 200,
                                body |-> JsonBody(formatCountry(second.data.a[1]))]
                          ELSE IF second.ok
                          THEN [status |-> 404, body |-> JsonBody(NotFoundB)]
                          ELSE [status |-> 404, body |-> JsonBody(CatchBodyB(second))]

C1_Witness ==
    \E r \in Slots :
      /\ req[r].pc = "done"
      /\ Len(req[r].results) = 2
      /\ req[r].results[1].response = 400
      /\ req[r].results[2].ok
      /\ req[r].resp.status = 200

\* C2: when the fullText attempt fails with anything but status 400 or 404
\* (a 5xx status, no response, any other error), the request has issued that
\* one upstream request only and is answered at once by the error path, with
\* that failure's message.
C2_NoRetryOtherwise ==
    \A r \in Slots :
      LET q == req[r]
      IN  FirstFailedOtherwise(q) =>
            /\ Len(q.calls) = 1
            /\ Len(q.results) = 1
            /\ q.pc = "done"
            /\ q.resp = [status |-> 404, body |-> JsonBody(CatchBodyB(q.results[1]))]

C2_Witness ==
    /\ \E r \in Slots : req[r].pc = "done" /\ req[r].results = <<StatusError(500)>>
    /\ \E r \in Slots : req[r].pc = "done" /\ req[r].results = <<NoResponse>>

\* C4: a request the token check rejects gets 401 and does nothing else: no
\* cache lookup, no cache write, no upstream request, no formatting; it is
\* never answered with a stored country body.
C4_UnauthorizedIsTerminal ==
    \A r \in Slots :
      LET q == req[r]
      IN  (q.pc # "idle" /\ AuthRejects(q.hdr)) =>
            /\ ~Has(q, "cacheLookup") /\ ~Has(q, "cacheWrite")
            /\ ~Has(q, "fetch") /\ ~Has(q, "format")
            /\ q.calls = <<>> /\ ~q.wrapped
            /\ q.pc \in {"auth", "done"}
            /\ q.pc = "done" =>
                 /\ q.ev = <<"auth", "send">>
                 /\ q.resp = [status |-> 401, body |-> JsonBody(Unauthorized)]

\* An unauthorized request for a URL whose 200 response is in the cache.
C4_Witness ==
    \E r, p \in Slots :
      /\ req[r].pc = "done" /\ req[r].resp.status = 401
      /\ req[p].pc = "done" /\ req[p].resp.status = 200
      /\ req[p].url = req[r].url
      /\ originalUrl(req[r].url) \in DOMAIN apiCache
      /\ now < apiCache[originalUrl(req[r].url)].expire

----------------------------------------------------------------------------
(* Claims about variant A's limiter, cache and routes.                     *)

Awaiting == {"awaitList", "awaitDetail"}
Arrived(r) == req[r].pc # "idle"
LastOf(q) == q.results[Len(q.results)]

\* Request r is answered in this step by its handler, after its upstream
\* request has settled.
Replies(r) == req[r].pc \in Awaiting /\ req'[r].pc = "done"

\* C3: a request that looks up a key whose entry was stored less than the TTL
\* ago is answered with the stored body, issues no upstream request and leaves
\* the cache as it is; one that looks up a key whose entry is older than the
\* TTL misses and goes on to the handler's upstream request.
C3_ServedWithinTtl ==
    [][\A r \in Slots :
         (req[r].pc = "cache" /\ req'[r].pc # "cache") =>
           LET key == cacheKey(req[r].url)
           IN  /\ (key \in DOMAIN memCache /\ now < memCache[key].expire) =>
                    /\ req'[r].pc = "done"
                    /\ req'[r].resp.body = memCache[key].value
                    /\ req'[r].calls = <<>>
                    /\ memCache' = memCache
               /\ (key \in DOMAIN memCache /\ now > memCache[key].expire) =>
                    /\ req'[r].pc = "handler"
                    /\ req'[r].wrapped]_vars

\* The limiter counts a request of ip in this step.
Counted(ip) == ip \in DOMAIN hits' /\ (ip \notin DOMAIN hits \/ hits'[ip] # hits[ip])

\* C5: per identity, a request with no bucket or after the window (15
\* minutes) has elapsed is allowed and starts a window with count 1; inside a
\* window the count grows by one per request, the requests up to the 100th
\* are allowed and every further one is rejected; the buckets of the other
\* identities are left alone.
C5_Limiter ==
    [][\A ip \in ClientIps :
         Counted(ip) =>
           LET known == ip \in DOMAIN hits
               inside == known /\ now < hits[ip].windowStart + 900000
               elapsed == known /\ now > hits[ip].windowStart + 900000
           IN  /\ decision'.ip = ip
               /\ decision'.count = hits'[ip].count
               /\ (~known \/ elapsed) =>
                    /\ hits'[ip] = [count |-> 1, windowStart |-> now]
                    /\ decision'.allowed
               /\ inside =>
                    /\ hits'[ip] = [count |-> hits[ip].count + 1,
                                    windowStart |-> hits[ip].windowStart]
                    /\ decision'.allowed = (hits[ip].count < 100)
               /\ \A other \in ClientIps \ {ip} :
                    /\ other \in DOMAIN hits' <=> other \in DOMAIN hits
                    /\ other \in DOMAIN hits => hits'[other] = hits[other]]_vars

\* The 101st request of one identity is rejected while another identity is
\* inside its own window, far from the limit.
C5_Witness ==
    /\ decision = [ip |-> "10.0.0.1", allowed |-> FALSE, count |-> 101]
    /\ "10.0.0.2" \in DOMAIN hits
    /\ hits["10.0.0.2"].count = 2
    /\ hits["10.0.0.2"].windowStart > 0

\* C6: the status of the response to a failed upstream fetch is the upstream's
\* status (or 404 on the detail route) when the upstream answered, 503 when
\* no response was received, 500 for any other failure.
C6_ErrorStatus ==
    \A r \in Slots :
      LET q == req[r]
      IN  (q.pc = "done" /\ q.results # <<>> /\ ~LastOf(q).ok) =>
            IF LastOf(q).response # 0
            THEN q.resp.status = LastOf(q).response \/ (q.url.name # "" /\ q.resp.status = 404)
            ELSE IF LastOf(q).request THEN q.resp.status = 503
            ELSE q.resp.status = 500

\* An error body of handleApiError.
IsErrorBody(body) ==
    \E e \in FailuresA \cup {TypeError} : body = JsonBody(handleApiErrorBody(e))

\* C7: a request whose upstream fetch fails leaves the cache unchanged, and
\* no request is answered from the cache with an error body.
C7_ErrorsNotCached ==
    /\ [][\A r \in Slots :
            (Replies(r) /\ ~LastOf(req'[r]).ok) => memCache' = memCache]_vars
    /\ [](\A r \in Slots : Has(req[r], "cacheHit") => ~IsErrorBody(req[r].resp.body))

\* The query parameters as a set, without their order and their letter case.
Normalized(u) ==
    {<<LowerOf(u.query[i][1]), toLowerCase(u.query[i][2])>> : i \in 1..Len(u.query)}
SameLogicalRequest(u, v) == u.name = v.name /\ Normalized(u) = Normalized(v)

C9_NoCoalescing ==
    /\ [](\A r, p \in Slots :
            (r # p /\ cacheKey(req[r].url) = cacheKey(req[p].url)
               /\ req[r].pc \in Awaiting /\ req[p].pc \in Awaiting) =>
              /\ Len(req[r].calls) = 1 /\ Len(req[p].calls) = 1
              /\ req[r].wrapped /\ req[p].wrapped)
    /\ [][\A r \in Slots :
            (Replies(r) /\ req[r].wrapped) =>
              /\ cacheKey(req[r].url) \in DOMAIN memCache'
              /\ memCache'[cacheKey(req[r].url)] =
                   [value |-> req'[r].resp.body, expire |-> now + 300000]]_vars
    /\ [][\A k \in DOMAIN memCache' :
            (k \notin DOMAIN memCache \/ memCache'[k] # memCache[k]) =>
              \E r \in Slots :
                /\ Replies(r)
                /\ cacheKey(req[r].url) = k
                /\ memCache'[k] = [value |-> req'[r].resp.body, expire |-> now + 300000]]_vars

\* Both requests for one key missed at time 0, fetched, and answered with
\* different bodies; the entry is the body of one of them.
C9_Witness ==
    /\ now = 0
    /\ req[1].pc = "done" /\ req[2].pc = "done"
    /\ req[1].url = req[2].url
    /\ Len(req[1].calls) = 1 /\ Len(req[2].calls) = 1
    /\ req[1].resp.status = 200 /\ req[2].resp.status = 200
    /\ req[1].resp.body # req[2].resp.body
    /\ memCache[cacheKey(req[1].url)].value = req[1].resp.body

----------------------------------------------------------------------------
(* Claims about variant A's field selection.                               *)

\* The names in a sequence of names.
NamesIn(seq) == {seq[i] : i \in 1..Len(seq)}

\* C11: the response to a detail request with a fields parameter, made from
\* the upstream's first record, is an object whose keys are exactly the
\* requested names that are properties of the record, each with the record's
\* value, whatever that value is; a name the record does not have is left
\* out and is no error.
C11_FieldSelection ==
    \A r \in Slots :
      LET q == req[r]
          fields == QueryParam(q.url, "fields")
      IN  (/\ q.pc = "done" /\ q.url.name # "" /\ Truthy(fields)
           /\ ~Has(q, "cacheHit")
           /\ q.results # <<>> /\ LastOf(q).ok /\ LastOf(q).data.a # <<>>) =>
            LET record == LastOf(q).data.a[1]
                present == NamesIn(fieldListOf(fields)) \cap NamesIn(record.k)
            IN  /\ q.resp.status = 200
                /\ q.resp.body.t = "json"
                /\ q.resp.body.v.t = "object"
                /\ NamesIn(q.resp.body.v.k) = present
                /\ \A f \in present : q.resp.body.v.o[f] = Stringify(record.o[f])

----------------------------------------------------------------------------
(* Claims about the detail route's empty result.                           *)

\* The upstream's last answer to request q was a success with no record.
EmptyResult(q) ==
    /\ q.pc = "done" /\ q.url.name # ""
    /\ q.results # <<>> /\ LastOf(q).ok /\ LastOf(q).data.a = <<>>

\* C12: a detail request whose last upstream answer is a success with an
\* empty result set, with or without a fields parameter, is answered 404, and
\* its response differs, in status or in body, from the response to a request
\* whose upstream fetch got no response.
C12_EmptyResultIsNotFound ==
    \A r \in Slots :
      EmptyResult(req[r]) =>
        /\ req[r].resp.status = 404
        /\ \A p \in Slots :
             (req[p].pc = "done" /\ req[p].results # <<>> /\ LastOf(req[p]) = NoResponse) =>
               req[p].resp # req[r].resp

----------------------------------------------------------------------------
(* Claims about variant B's token check.                                   *)

\* The three ways in which a request fails the check.
MissingHeader(h) == h.t = "undefined"
MalformedHeader(h) == h.t = "string" /\ ~StartsWithBearer(h.s)
MismatchedToken(h) ==
    /\ h.t = "string" /\ StartsWithBearer(h.s)
    /\ Len(h.s) < 3 \/ h.s[3] # AUTH_TOKEN
FailsCheck(h) == MissingHeader(h) \/ MalformedHeader(h) \/ MismatchedToken(h)

\* C13: requests without an Authorization header, with a header that lacks the
\* "Bearer " prefix and with a wrong token are all answered 401, and any two
\* of them get the same response, status and body: the response does not tell
\* which of the three it was.
C13_UniformUnauthorized ==
    \A r, p \in Slots :
      (/\ req[r].pc = "done" /\ FailsCheck(req[r].hdr)
       /\ req[p].pc = "done" /\ FailsCheck(req[p].hdr)) =>
        /\ req[r].resp.status = 401
        /\ req[r].resp = req[p].resp
        /\ req[r].ev = req[p].ev

\* A request without header and one with a wrong token, both answered.
C13_Witness ==
    \E r, p \in Slots :
      /\ req[r].pc = "done" /\ MissingHeader(req[r].hdr)
      /\ req[p].pc = "done" /\ MismatchedToken(req[p].hdr)
      /\ req[r].resp.status = 401
      /\ req[p].resp = req[r].resp

\* The one header that carries the secret and nothing else.
ExactHeader == Str(<<"Bearer", " ", AUTH_TOKEN>>)

\* C14: a request gets past the token check exactly when its Authorization
\* header is "Bearer " followed by the secret and nothing else; with any other
\* header it is answered 401.
C14_ExactMatch ==
    \A r \in Slots :
      LET q == req[r]
      IN  q.pc \notin {"idle", "auth"} =>
            /\ q.hdr = ExactHeader => (q.pc = "cache" \/ Has(q, "cacheLookup"))
            /\ q.hdr # ExactHeader =>
                 /\ q.pc = "done" /\ q.resp.status = 401
                 /\ ~Has(q, "cacheLookup")

----------------------------------------------------------------------------
(* Claims about the listing route's search.                                *)

\* term occurs in name, letter by letter, when the case of the letters is
\* disregarded.
ContainsFolded(name, term) ==
    \E i \in 0..(Len(name) - Len(term)) :
      \A j \in 1..Len(term) : LowerOf(name[i + j]) = LowerOf(term[j])

\* C15: with a non-empty search the listing is made of exactly the upstream
\* records whose common name contains the search term, letter case
\* disregarded, in upstream order; with an empty or absent search it is made
\* of all the upstream records.  total counts them, and data is their page.
C15_SearchFilter ==
    shaped.ran =>
      LET raw == QueryParam(shaped.url, "search")
          rawPage == QueryParam(shaped.url, "page")
          rawLimit == QueryParam(shaped.url, "limit")
          all == shaped.data.a
          kept == IF raw.t = "undefined" \/ raw.s = <<>> THEN all
                  ELSE SelectSeq(all, LAMBDA c : ContainsFolded(c.o.name.o.common.s, raw.s))
          P == ValueOr(rawPage, 1)
          L == ValueOr(rawLimit, 20)
          last == IF P * L > Len(kept) THEN Len(kept) ELSE P * L
          out == shaped.out.o
      IN  /\ out.total = Num(Len(kept))
          /\ (ValidNumeral(rawPage) /\ ValidNumeral(rawLimit)) =>
                out.data.a = SubSeq(kept, (P - 1) * L + 1, last)

\* A search written in mixed case keeps the two records whose names hold it
\* and drops the one before them.
C15_Witness ==
    /\ shaped.ran
    /\ QueryParam(shaped.url, "search") = Str(<<"a", "B">>)
    /\ QueryParam(shaped.url, "page").t = "undefined"
    /\ QueryParam(shaped.url, "limit").t = "undefined"
    /\ shaped.data.a = <<Cuba, Alba, Bouvet>>
    /\ shaped.out.o.total = Num(2)
    /\ shaped.out.o.data.a = <<Alba, Bouvet>>

----------------------------------------------------------------------------
(* Claims about what an error response tells.                              *)

\* The body holds, as the value of one of its properties, the message of an
\* error that a handler may catch.
CarriesErrorMessage(body) ==
    /\ body.t = "json"
    /\ body.v.t = "object"
    /\ \E f \in NamesIn(body.v.k), e \in Failures \cup {TypeError} :
         body.v.o[f] = Str(<<e.message>>)

\* C16: unless the process runs in development mode, no response carries the
\* message of a caught error.
C16_DetailsOnlyInDevelopment ==
    env # "development" =>
      \A r \in Slots : req[r].pc = "done" => ~CarriesErrorMessage(req[r].resp.body)

----------------------------------------------------------------------------
(* Either server, with the fairness of its scheduling: node's event loop   *)
(* runs every callback that is ready, and an upstream request that was     *)
(* issued runs to completion or failure.                                   *)

\* The steps of request r on variant A and on variant B.
RunsA(r) ==
    /\ server = "A"
    /\ \/ limiter(r)
       \/ cacheMiddleware(r)
       \/ listHandler(r)
       \/ \E o \in OutcomesA(req[r].url) : listReply(r, o)
       \/ detailHandler(r)
       \/ \E o \in OutcomesA(req[r].url) : detailReply(r, o)
RunsB(r) ==
    /\ server = "B"
    /\ \/ authMiddleware(r)
       \/ apicacheMiddleware(r)
       \/ detailHandlerB(r)
       \/ \E o \in OutcomesB : firstReplyB(r, o)
       \/ \E o \in OutcomesB : secondReplyB(r, o)

InitEither ==
    /\ now = 0
    /\ req = [r \in Slots |-> IdleReq]
    /\ memCache = <<>>
    /\ apiCache = <<>>
    /\ hits = <<>>
    /\ decision = NoDecision
    /\ shaped = NoShaped
    /\ env = "production"
    /\ server \in {"A", "B"}

\* The clients of these runs: the listing and the detail URL of variant A, a
\* request without header and one with the right header on variant B.
UrlsEither == {Url("", <<<<"page", <<"1">>>>, <<"limit", <<"2">>>>>>), Url("ab", <<>>)}
HeadersEither == {Undef, Str(<<"Bearer", " ", AUTH_TOKEN>>)}

NextEither ==
    \/ server = "A" /\ Tick(CacheMs \div 2)
    \/ server = "B" /\ Tick(ApicacheMs \div 2)
    \/ server = "A" /\ \E r \in Slots, u \in UrlsEither : ArriveA(r, "10.0.0.1", u)
    \/ server = "B" /\ \E r \in Slots, hdr \in HeadersEither : ArriveB(r, hdr, "congo")
    \/ server = "A" /\ \E r \in Slots : limiter(r)
    \/ server = "A" /\ \E r \in Slots : cacheMiddleware(r)
    \/ server = "A" /\ \E r \in Slots : listHandler(r)
    \/ server = "A" /\ \E r \in Slots : \E o \in OutcomesA(req[r].url) : listReply(r, o)
    \/ server = "A" /\ \E r \in Slots : detailHandler(r)
    \/ server = "A" /\ \E r \in Slots : \E o \in OutcomesA(req[r].url) : detailReply(r, o)
    \/ server = "B" /\ \E r \in Slots : authMiddleware(r)
    \/ server = "B" /\ \E r \in Slots : apicacheMiddleware(r)
    \/ server = "B" /\ \E r \in Slots : detailHandlerB(r)
    \/ server = "B" /\ \E r \in Slots, o \in OutcomesB : firstReplyB(r, o)
    \/ server = "B" /\ \E r \in Slots, o \in OutcomesB : secondReplyB(r, o)
    \/ server = "A" /\ \E k \in DOMAIN memCache : memCacheTimeout(k)
    \/ server = "B" /\ \E k \in DOMAIN apiCache : apicacheTimeout(k)

Fairness == \A r \in Slots : WF_vars(RunsA(r)) /\ WF_vars(RunsB(r))

SpecEither == InitEither /\ [][NextEither]_vars /\ Fairness

----------------------------------------------------------------------------
(* Claims about termination.                                               *)

\* How many responses request q has sent.
Sends(q) == Cardinality({i \in 1..Len(q.ev) : q.ev[i] = "send"})

----------------------------------------------------------------------------
(* Claims about what the memory cache holds.                               *)

\* C18: a request answered from the cache gets the status of the response
\* whose body is the entry it was answered from: the status of the request
\* that wrote that body under the same key.
C18_HitKeepsStatus ==
    \A r, p \in Slots :
      (/\ req[r].pc = "done" /\ Has(req[r], "cacheHit")
       /\ req[p].pc = "done" /\ Has(req[p], "cacheWrite")
       /\ originalUrl(req[p].url) = originalUrl(req[r].url)
       /\ req[p].resp.body = req[r].resp.body) =>
        req[r].resp.status = req[p].resp.status

\* The key that belongs to the original URL of request q.
KeyOfUrl(q) == <<"__express__">> \o originalUrl(q.url)

\* The body that the handlers make for the URL of request q out of the last
\* answer the upstream gave to q.
BodyFor(q) ==
    LET o == LastOf(q)
        fields == QueryParam(q.url, "fields")
    IN  IF ~o.ok THEN JsonBody(handleApiErrorBody(o))
        ELSE IF q.url.name = "" THEN JsonBody(listingResult(o.data, q.url))
        ELSE IF ~Truthy(fields) THEN JsonBody(At(o.data, 0))
        ELSE IF o.data.a = <<>> THEN JsonBody(handleApiErrorBody(TypeError))
        ELSE JsonBody(selectFields(o.data.a[1], fieldListOf(fields)))

\* C19: in every state, the entry under a key is the body of a request whose
\* original URL is that key, made for that URL from that request's own
\* upstream answer; a request answered from the cache gets a body written by
\* a request with its own original URL; and a request that responds writes
\* under the key of its own URL and leaves every other entry alone.
C19_EntryBelongsToUrl ==
    /\ [](\A k \in DOMAIN memCache :
            \E p \in Slots :
              /\ KeyOfUrl(req[p]) = k
              /\ req[p].pc = "done" /\ Has(req[p], "cacheWrite")
              /\ req[p].resp.body = BodyFor(req[p])
              /\ memCache[k].value = req[p].resp.body)
    /\ [](\A r \in Slots :
            Has(req[r], "cacheHit") =>
              \E p \in Slots \ {r} :
                /\ originalUrl(req[p].url) = originalUrl(req[r].url)
                /\ Has(req[p], "cacheWrite")
                /\ req[r].resp.body = BodyFor(req[p]))
    /\ [][\A r \in Slots :
            Replies(r) =>
              /\ KeyOfUrl(req[r]) \in DOMAIN memCache'
              /\ memCache'[KeyOfUrl(req[r])].value = BodyFor(req'[r])
              /\ \A k \in DOMAIN memCache \ {KeyOfUrl(req[r])} :
                   k \in DOMAIN memCache' /\ memCache'[k] = memCache[k]]_vars

\* Two requests for different URLs have both fetched; the one that arrived
\* first wrote its entry after the other one, and each entry is the body of
\* its own request.
C19_Witness ==
    /\ req[1].pc = "done" /\ req[2].pc = "done"
    /\ originalUrl(req[1].url) # originalUrl(req[2].url)
    /\ Len(req[1].calls) = 1 /\ Len(req[2].calls) = 1
    /\ req[1].resp.body # req[2].resp.body
    /\ KeyOfUrl(req[1]) \in DOMAIN memCache /\ KeyOfUrl(req[2]) \in DOMAIN memCache
    /\ memCache[KeyOfUrl(req[1])].value = req[1].resp.body
    /\ memCache[KeyOfUrl(req[2])].value = req[2].resp.body
    /\ memCache[KeyOfUrl(req[1])].expire > memCache[KeyOfUrl(req[2])].expire

====
